---- MODULE Spec2Model ----
(***************************************************************************)
(* KeplerTable (src/src/utils/table-utils/kepler-table.js): the tabular    *)
(* dataset with dual-track filtering, its CPU shadow copy, the column      *)
(* queries and sortDatasetByColumn.                                        *)
(*                                                                         *)
(* JavaScript objects and arrays are references.  Objects live in objs     *)
(* (the table, the latest shadow copy made by filterTableCPU, the latest   *)
(* object returned by sortDatasetByColumn), index arrays in arrays and     *)
(* fields arrays in fieldArrays; a table's fields hold references into     *)
(* them, so two fields can name the same array.  Indices are 0-based as in *)
(* the source; row i of allData is allData[i + 1].                         *)
(***************************************************************************)
EXTENDS Integers, Sequences, FiniteSets, TLC

VARIABLES data, objs, arrays, fieldArrays, last

vars == <<data, objs, arrays, fieldArrays, last>>

(* ----------------------------- bounds ---------------------------------- *)

\* rows of a dataset: 0 .. MaxRows
MaxRows == 2
\* cell values and filter range ends: 1 .. MaxVal
MaxVal == 2

(* ------------------------- JavaScript values --------------------------- *)

\* a reference-typed property that was never assigned
Undefined == 0 - 1
\* a reference-typed property holding null
Null == 0 - 2

\* the value of a property that was never assigned (filterRecord, sortColumn)
UndefinedValue == [undefined |-> TRUE]

IsUndefined(v) == v = UndefinedValue

\* what a call hands back: kind is "undefined", "null", "int", "value",
\* "object" (v: a key of objs) or "throw" (a TypeError)
Ret(kind, v) == [kind |-> kind, v |-> v]

RetUndefined == Ret("undefined", 0)

RetNull == Ret("null", 0)

RetThrow == Ret("throw", 0)

Range(s) == {s[i] : i \in DOMAIN s}

Min(S) == CHOOSE x \in S : \A y \in S : x <= y

Max(S) == CHOOSE x \in S : \A y \in S : x >= y

(* --------------------------- the input data ---------------------------- *)

\* the id of the dataset the table is built for
DataId == "d1"

\* data.fields of the constructor's argument
InputFields ==
  << [name |-> "a", type |-> "integer", format |-> ""],
     [name |-> "b", type |-> "timestamp", format |-> "x"] >>

Cells == 1..MaxVal

Rows == [1..Len(InputFields) -> Cells]

\* data.rows of the constructor's argument
RowLists == UNION {[1..n -> Rows] : n \in 0..MaxRows}

\* row i of BaseRows: field a falls and rises, field b lags one row behind
BaseRow(i) == <<MaxVal - (i % MaxVal), 1 + (((i + 1) \div 2) % MaxVal)>>

\* the first n rows of BaseRows, n up to MaxRows
PrefixRowLists == {[i \in 1..n |-> BaseRow(i - 1)] : n \in 0..MaxRows}

\* column names a caller may ask for: the two fields, and a name no field
\* has, which differs from a field's name in case only
ColumnNames == {"a", "b", "A"}

(* ------------------------------ fields --------------------------------- *)

\* maybeToDate(isTime, fieldIdx, format, d): the typed value of a row's cell;
\* a timestamp in seconds (format "x") becomes milliseconds
maybeToDate(isTime, fieldIdx, format, d) ==
  IF isTime
    THEN IF format = "x" THEN d[fieldIdx + 1] * 1000 ELSE d[fieldIdx + 1]
    ELSE d[fieldIdx + 1]

\* field.valueAccessor(d): the accessor is maybeToDate bound to the field
valueAccessor(field, d) ==
  maybeToDate(field.valueAccessor.isTime, field.valueAccessor.fieldIdx,
              field.valueAccessor.format, d)

\* the constructor's fields: data.fields with fieldIdx and valueAccessor added
ConstructFields(dataFields) ==
  [i \in 1..Len(dataFields) |->
     [name |-> dataFields[i].name,
      type |-> dataFields[i].type,
      format |-> dataFields[i].format,
      fieldIdx |-> i - 1,
      valueAccessor |-> [isTime |-> dataFields[i].type = "timestamp",
                         fieldIdx |-> i - 1,
                         format |-> dataFields[i].format]]]

\* a name with its capitals lowered
LowerCase(name) == IF name = "A" THEN "a" ELSE IF name = "B" THEN "b" ELSE name

\* a findIndex that takes names differing in case only for the same name
FindFieldIndexAnyCase(fields, columnName) ==
  IF \E i \in 1..Len(fields) : LowerCase(fields[i].name) = LowerCase(columnName)
    THEN Min({i \in 1..Len(fields) : LowerCase(fields[i].name) = LowerCase(columnName)}) - 1
    ELSE 0 - 1

\* Array.prototype.findIndex over the field names: 0-based, -1 when absent
FindFieldIndex(fields, columnName) ==
  IF \E i \in 1..Len(fields) : fields[i].name = columnName
    THEN Min({i \in 1..Len(fields) : fields[i].name = columnName}) - 1
    ELSE 0 - 1

(* --------------------------- domain calculators ------------------------ *)

\* the values of s without repetition, in order of first occurrence
RECURSIVE Unique(_)
Unique(s) ==
  IF s = <<>> THEN <<>>
  ELSE LET init == Unique(SubSeq(s, 1, Len(s) - 1))
           x == s[Len(s)]
       IN IF x \in Range(init) THEN init ELSE Append(init, x)

\* the values of S in ascending order
RECURSIVE SortedSeq(_)
SortedSeq(S) ==
  IF S = {} THEN <<>> ELSE <<Min(S)>> \o SortedSeq(S \ {Min(S)})

\* s in ascending order, repetitions kept
RECURSIVE SortValues(_)
SortValues(s) ==
  IF s = <<>> THEN <<>>
  ELSE LET m == Min(Range(s))
           k == Min({i \in 1..Len(s) : s[i] = m})
       IN <<m>> \o SortValues(SubSeq(s, 1, k - 1) \o SubSeq(s, k + 1, Len(s)))

\* getOrdinalDomain(allData, valueAccessor)
getOrdinalDomain(allData, field) ==
  Unique([i \in 1..Len(allData) |-> valueAccessor(field, allData[i])])

\* [min, max] of a sequence of values; nothing for no values
Extent(values) ==
  IF values = <<>> THEN <<>> ELSE <<Min(Range(values)), Max(Range(values))>>

\* the values a domain calculator reads: indexValueAccessor over an index list
IndexValues(indexes, allData, field) ==
  [k \in 1..Len(indexes) |-> valueAccessor(field, allData[indexes[k] + 1])]

\* getLinearDomain(indexes, indexValueAccessor)
getLinearDomain(indexes, allData, field) ==
  Extent(IndexValues(indexes, allData, field))

\* getLogDomain(indexes, indexValueAccessor): the cells here are all positive
getLogDomain(indexes, allData, field) ==
  Extent(IndexValues(indexes, allData, field))

\* getQuantileDomain(indexes, indexValueAccessor, sortFunction)
getQuantileDomain(indexes, allData, field) ==
  SortValues(IndexValues(indexes, allData, field))

\* getNumericFieldDomain(allData, valueAccessor)
getNumericFieldDomain(allData, field) ==
  [domain |-> Extent([i \in 1..Len(allData) |-> valueAccessor(field, allData[i])])]

\* getTimestampFieldDomain(allData, valueAccessor)
getTimestampFieldDomain(allData, field) ==
  [domain |-> Extent([i \in 1..Len(allData) |-> valueAccessor(field, allData[i])])]

\* getFilterProps(field, fieldDomain)
getFilterProps(field, fieldDomain) ==
  [domain |-> fieldDomain.domain, fieldType |-> field.type]

(* ------------------------------ filters -------------------------------- *)

\* a range filter descriptor on one field of one dataset
Filter(id, dataId, fieldIdx, name, value, gpu, fixedDomain) ==
  [id |-> id, dataId |-> dataId, fieldIdx |-> fieldIdx, name |-> name,
   type |-> "range", value |-> value, gpu |-> gpu, fixedDomain |-> fixedDomain]

\* the ranges [lo, hi] a filter on field a can hold: one value each
RangeValues == {<<v, v>> : v \in Cells}

\* the same ranges in the milliseconds of field b
TimeRangeValues == {<<r[1] * 1000, r[2] * 1000>> : r \in RangeValues}

\* the filter f1, on field a, evaluated on CPU, with a fixed domain
FiltersOnA ==
  {Filter("f1", DataId, 0, "a", v, FALSE, fd) : v \in RangeValues, fd \in {TRUE}}

\* the filter f2, on field b, GPU-flagged, with a dynamic domain
FiltersOnB ==
  {Filter("f2", DataId, 1, "b", v, TRUE, fd) : v \in TimeRangeValues, fd \in {FALSE}}

\* the filter lists a caller passes
FilterLists ==
  {<<>>} \cup {<<f>> : f \in FiltersOnA \cup FiltersOnB}
         \cup {<<f, g>> : f \in FiltersOnA, g \in FiltersOnB}

\* the filter lists of the specifications about other calls: none, f1, f1 and
\* f2, each with its least value
FewFilterLists ==
  {l \in FilterLists : /\ \A k \in 1..Len(l) : l[k].value[1] \in {1, 1000}
                       /\ l # <<>> => l[1].id = "f1"}

\* the options a caller passes to filterTable: none, or those of filterTableCPU
NoOpt == [cpuOnly |-> FALSE, ignoreDomain |-> FALSE]

CpuOpt == [cpuOnly |-> TRUE, ignoreDomain |-> TRUE]

\* getFilterRecord(dataId, filters, opt): the filters of this dataset by group
getFilterRecord(dataId, filters, opt) ==
  LET active(f) == f.dataId = dataId
      dyn(f) == active(f) /\ ~(f.fixedDomain \/ opt.ignoreDomain)
      fix(f) == active(f) /\ (f.fixedDomain \/ opt.ignoreDomain)
      onGpu(f) == active(f) /\ (f.gpu /\ ~opt.cpuOnly)
      onCpu(f) == active(f) /\ ~(f.gpu /\ ~opt.cpuOnly)
  IN [dynamicDomain |-> SelectSeq(filters, dyn),
      fixedDomain |-> SelectSeq(filters, fix),
      cpu |-> SelectSeq(filters, onCpu),
      gpu |-> SelectSeq(filters, onGpu)]

\* one group of diffFilters: a filter was added, removed, or its name, value
\* or dataId changed
GroupChanged(items, oldItems) ==
  \/ \E k \in 1..Len(items) :
       \/ ~\E j \in 1..Len(oldItems) : oldItems[j].id = items[k].id
       \/ \E j \in 1..Len(oldItems) :
            /\ oldItems[j].id = items[k].id
            /\ \/ oldItems[j].name # items[k].name
               \/ oldItems[j].value # items[k].value
               \/ oldItems[j].dataId # items[k].dataId
  \/ \E j \in 1..Len(oldItems) :
       ~\E k \in 1..Len(items) : items[k].id = oldItems[j].id

\* diffFilters(filterRecord, oldFilterRecord): which groups changed; an
\* undefined old record is the empty record
diffFilters(filterRecord, oldFilterRecord) ==
  LET old(group) == IF IsUndefined(oldFilterRecord) THEN <<>> ELSE oldFilterRecord[group]
  IN [group \in {"dynamicDomain", "fixedDomain", "cpu", "gpu"} |->
        GroupChanged(filterRecord[group], old(group))]

\* getDatasetFieldIndexForFilter(dataId, filter)
getDatasetFieldIndexForFilter(dataId, filter) ==
  IF filter.dataId = dataId THEN filter.fieldIdx ELSE 0 - 1

\* getFilterFunction(field, dataId, filter, layers) applied to the row d; field
\* is a sequence of no or one field (null when the filter has no field here)
getFilterFunction(field, filter, d) ==
  IF field = <<>> THEN FALSE
  ELSE /\ filter.value[1] <= valueAccessor(field[1], d)
       /\ valueAccessor(field[1], d) <= filter.value[2]

\* filterFuncs[filter.id](d) as filterTable builds it for the filter
FilterFunc(dataId, fields, filter, d) ==
  LET fieldIndex == getDatasetFieldIndexForFilter(dataId, filter)
      field == IF fieldIndex # 0 - 1 THEN <<fields[fieldIndex + 1]>> ELSE <<>>
  IN getFilterFunction(field, filter, d)

\* the row indices whose rows pass every filter of a group, ascending
PassingIndices(group, dataId, fields, allData) ==
  LET passes(i) == \A k \in 1..Len(group) : FilterFunc(dataId, fields, group[k], allData[i + 1])
  IN SelectSeq([i \in 1..Len(allData) |-> i - 1], passes)

\* filterDataByFilterTypes({dynamicDomainFilters, cpuFilters, filterFuncs}, allData):
\* a group that is null yields no property in the result
filterDataByFilterTypes(calDomain, dynamicDomainFilters, calIndex, cpuFilters, dataId, fields, allData) ==
  [hasFilteredIndexForDomain |-> calDomain,
   filteredIndexForDomain |->
     IF calDomain THEN PassingIndices(dynamicDomainFilters, dataId, fields, allData) ELSE <<>>,
   hasFilteredIndex |-> calIndex,
   filteredIndex |->
     IF calIndex THEN PassingIndices(cpuFilters, dataId, fields, allData) ELSE <<>>]

\* getGpuFilterProps(filters, dataId, fields): one channel per GPU-flagged
\* filter of this dataset
getGpuFilterProps(filters, dataId, fields) ==
  LET onGpu(f) == f.gpu /\ f.dataId = dataId
      gpuFilters == SelectSeq(filters, onGpu)
  IN [k \in 1..Len(gpuFilters) |->
        [id |-> gpuFilters[k].id, name |-> gpuFilters[k].name,
         value |-> gpuFilters[k].value]]

(* ------------------------------ the heap ------------------------------- *)

\* a reference no array of the heap h has yet
NewRef(h) == Min((0..Cardinality(DOMAIN h)) \ DOMAIN h)

\* the machine state the operations transform: the objects, the two heaps of
\* arrays, and what the last call returned
State(o, a, f, r) == [objs |-> o, arrays |-> a, fieldArrays |-> f, ret |-> r]

\* the index-array properties of an object, in a fixed order
IndexProps ==
  <<"allIndexes", "filteredIndex", "filteredIndexForDomain", "filteredIdxCPU", "sortOrder">>

ObjectIds == <<"table", "copied", "sorted">>

\* the index-array references the objects hold, object by object
IndexRoots(o) ==
  [k \in 1..(Len(ObjectIds) * Len(IndexProps)) |->
     LET id == ObjectIds[((k - 1) \div Len(IndexProps)) + 1]
         prop == IndexProps[((k - 1) % Len(IndexProps)) + 1]
     IN IF id \in DOMAIN o THEN o[id][prop] ELSE Undefined]

\* the fields-array references the objects hold
FieldRoots(o) ==
  [k \in 1..Len(ObjectIds) |->
     IF ObjectIds[k] \in DOMAIN o THEN o[ObjectIds[k]].fields ELSE Undefined]

\* the references of roots in order of first occurrence
LiveRefs(roots) ==
  LET isRef(r) == r >= 0 IN Unique(SelectSeq(roots, isRef))

\* the new name of a live reference: its place in LiveRefs
Rename(live, r) ==
  IF r < 0 THEN r ELSE Min({k \in 1..Len(live) : live[k] = r}) - 1

\* garbage collection: unreachable arrays are dropped and the live ones,
\* live for the index arrays and liveF for the fields arrays, are renamed in
\* root order, which no program can observe
NormaliseWith(st, live, liveF) ==
  LET rn(t) == [t EXCEPT !.allIndexes = Rename(live, @),
                         !.filteredIndex = Rename(live, @),
                         !.filteredIndexForDomain = Rename(live, @),
                         !.filteredIdxCPU = Rename(live, @),
                         !.sortOrder = Rename(live, @),
                         !.fields = Rename(liveF, @)]
  IN [st EXCEPT !.objs = [id \in DOMAIN st.objs |-> rn(st.objs[id])],
                !.arrays = [r \in 0..(Len(live) - 1) |-> st.arrays[live[r + 1]]],
                !.fieldArrays = [r \in 0..(Len(liveF) - 1) |-> st.fieldArrays[liveF[r + 1]]]]

Normalise(st) ==
  NormaliseWith(st, LiveRefs(IndexRoots(st.objs)), LiveRefs(FieldRoots(st.objs)))

(* ------------------------- findPointFieldPairs ------------------------- *)

\* TRIP_POINT_FIELDS: the suffix pairs, in the order they are tried
TRIP_POINT_FIELDS == << <<"lat", "lng">>, <<"lat", "lon">>, <<"latitude", "longitude">> >>

\* the capitals that occur in the names here, and their small letters
UpperCaseLetters == "ALTNGOXY"

LowerCaseLetters == "altngoxy"

\* one character of String.prototype.toLowerCase
LowerChar(c) ==
  IF \E k \in 1..Len(UpperCaseLetters) : SubSeq(UpperCaseLetters, k, k) = c
    THEN LET k == CHOOSE k \in 1..Len(UpperCaseLetters) : SubSeq(UpperCaseLetters, k, k) = c
         IN SubSeq(LowerCaseLetters, k, k)
    ELSE c

\* String.prototype.toLowerCase
RECURSIVE toLowerCase(_)
toLowerCase(s) ==
  IF Len(s) = 0 THEN "" ELSE LowerChar(SubSeq(s, 1, 1)) \o toLowerCase(SubSeq(s, 2, Len(s)))

\* String.prototype.endsWith
endsWith(s, suffix) ==
  Len(s) >= Len(suffix) /\ SubSeq(s, Len(s) - Len(suffix) + 1, Len(s)) = suffix

\* s.replace(new RegExp(suffix + "$"), other), for an s that ends with suffix
ReplaceSuffix(s, suffix, other) ==
  IF endsWith(s, suffix) THEN SubSeq(s, 1, Len(s) - Len(suffix)) \o other ELSE s

\* s.replace(new RegExp(suffix, 'ig'), ''): every occurrence, whatever its
\* case, left to right
RECURSIVE RemoveEvery(_, _)
RemoveEvery(s, suffix) ==
  IF Len(s) < Len(suffix) \/ Len(s) = 0 THEN s
  ELSE IF toLowerCase(SubSeq(s, 1, Len(suffix))) = toLowerCase(suffix)
    THEN RemoveEvery(SubSeq(s, Len(suffix) + 1, Len(s)), suffix)
  ELSE SubSeq(s, 1, 1) \o RemoveEvery(SubSeq(s, 2, Len(s)), suffix)

Delimiters == {"_", ",", "."}

\* s without the delimiters it starts with
RECURSIVE DropDelimiters(_)
DropDelimiters(s) ==
  IF Len(s) > 0 /\ SubSeq(s, 1, 1) \in Delimiters THEN DropDelimiters(SubSeq(s, 2, Len(s))) ELSE s

\* s.replace(/[_,.]+/g, ' '): each run of delimiters becomes one space
RECURSIVE ReplaceDelimiters(_)
ReplaceDelimiters(s) ==
  IF Len(s) = 0 THEN ""
  ELSE IF SubSeq(s, 1, 1) \in Delimiters THEN " " \o ReplaceDelimiters(DropDelimiters(s))
  ELSE SubSeq(s, 1, 1) \o ReplaceDelimiters(SubSeq(s, 2, Len(s)))

\* String.prototype.trim
RECURSIVE trim(_)
trim(s) ==
  IF Len(s) > 0 /\ SubSeq(s, 1, 1) = " " THEN trim(SubSeq(s, 2, Len(s)))
  ELSE IF Len(s) > 0 /\ SubSeq(s, Len(s), Len(s)) = " " THEN trim(SubSeq(s, 1, Len(s) - 1))
  ELSE s

\* removeSuffixAndDelimiters(layerName, suffix)
removeSuffixAndDelimiters(layerName, suffix) ==
  trim(ReplaceDelimiters(RemoveEvery(layerName, suffix)))

\* allNames.findIndex(d => d === partner): 0-based, -1 when absent
FindNameIndex(allNames, partner) ==
  IF \E j \in 1..Len(allNames) : allNames[j] = partner
    THEN Min({j \in 1..Len(allNames) : allNames[j] = partner}) - 1
    ELSE 0 - 1

\* the suffix pairs whose first suffix ends fieldName and whose partner name
\* is among allNames, by their place in TRIP_POINT_FIELDS
PairsFound(allNames, fieldName) ==
  {p \in 1..Len(TRIP_POINT_FIELDS) :
     /\ endsWith(fieldName, TRIP_POINT_FIELDS[p][1])
     /\ FindNameIndex(allNames, ReplaceSuffix(fieldName, TRIP_POINT_FIELDS[p][1],
                                              TRIP_POINT_FIELDS[p][2])) > 0 - 1}

\* the entry pushed for the field at idx (0-based) and the suffix pair p
PointFieldPair(fields, allNames, idx, p) ==
  LET suffixPair == TRIP_POINT_FIELDS[p]
      fieldName == allNames[idx + 1]
      partnerIdx == FindNameIndex(allNames, ReplaceSuffix(fieldName, suffixPair[1], suffixPair[2]))
  IN [defaultName |-> removeSuffixAndDelimiters(fieldName, suffixPair[1]),
      pair |-> [lat |-> [fieldIdx |-> idx, value |-> fields[idx + 1].name],
                lng |-> [fieldIdx |-> partnerIdx, value |-> fields[partnerIdx + 1].name]],
      suffix |-> suffixPair]

\* a search that goes on to the later suffix pairs after it found one
findPointFieldPairsEveryPair(fields) ==
  LET allNames == [i \in 1..Len(fields) |-> toLowerCase(fields[i].name)]
      n == Len(TRIP_POINT_FIELDS)
      found(k) == ((k - 1) % n) + 1 \in PairsFound(allNames, allNames[((k - 1) \div n) + 1])
      hits == SelectSeq([k \in 1..(Len(fields) * n) |-> k], found)
  IN [h \in 1..Len(hits) |->
        PointFieldPair(fields, allNames, (hits[h] - 1) \div n, ((hits[h] - 1) % n) + 1)]

\* findPointFieldPairs(fields): the reduce visits the fields in order, and for
\* each the loop returns at the first suffix pair that has a partner
findPointFieldPairs(fields) ==
  LET allNames == [i \in 1..Len(fields) |-> toLowerCase(fields[i].name)]
      found(i) == PairsFound(allNames, allNames[i]) # {}
      hits == SelectSeq([i \in 1..Len(fields) |-> i], found)
  IN [h \in 1..Len(hits) |->
        PointFieldPair(fields, allNames, hits[h] - 1, Min(PairsFound(allNames, allNames[hits[h]])))]

(* ---------------------------- KeplerTable ------------------------------ *)

\* an allIndexes that counts the rows from 1
AllIndexesFromOne(allData) == [i \in 1..Len(allData) |-> i]

\* allData.map((_, i) => i)
AllIndexes(allData) == [i \in 1..Len(allData) |-> i - 1]

\* new KeplerTable({info, data}): the heap holds allIndexes, which
\* filteredIndex and filteredIndexForDomain also name, and the fields array
Constructor(d) ==
  LET fields == ConstructFields(d.fields)
      allIndexes == AllIndexes(d.rows)
      table == [id |-> DataId,
                allData |-> d.rows,
                allIndexes |-> 0,
                filteredIndex |-> 0,
                filteredIndexForDomain |-> 0,
                fieldPairs |-> findPointFieldPairs(fields),
                fields |-> 0,
                gpuFilter |-> getGpuFilterProps(<<>>, DataId, fields),
                filterRecord |-> UndefinedValue,
                filteredIdxCPU |-> Undefined,
                filterRecordCPU |-> UndefinedValue,
                sortColumn |-> [defined |-> FALSE, entries |-> {}],
                sortOrder |-> Undefined]
  IN State("table" :> table, 0 :> allIndexes, 0 :> fields, Ret("object", "table"))

\* getColumnField(columnName)
getColumnField(st, this, columnName) ==
  LET fields == st.fieldArrays[st.objs[this].fields]
      i == FindFieldIndex(fields, columnName)
  IN [st EXCEPT !.ret = IF i >= 0 THEN Ret("value", fields[i + 1]) ELSE RetUndefined]

\* getColumnFieldIdx(columnName)
getColumnFieldIdx(st, this, columnName) ==
  [st EXCEPT !.ret = Ret("int", FindFieldIndex(st.fieldArrays[st.objs[this].fields], columnName))]

\* getValue(columnName, rowIdx): a row index outside allData makes the
\* accessor read a cell of undefined, a TypeError
getValue(st, this, columnName, rowIdx) ==
  LET t == st.objs[this]
      field == getColumnField(st, this, columnName).ret
  IN [st EXCEPT !.ret =
        IF field.kind = "undefined" THEN RetNull
        ELSE IF rowIdx < 0 \/ rowIdx >= Len(t.allData) THEN RetThrow
        ELSE Ret("value", valueAccessor(field.v, t.allData[rowIdx + 1]))]

\* an updateColumnField that writes into the fields array it finds
updateColumnFieldInPlace(st, this, fieldIdx, newField) ==
  LET t == st.objs[this]
      old == st.fieldArrays[t.fields]
      new == IF fieldIdx >= 0 /\ fieldIdx < Len(old) THEN [old EXCEPT ![fieldIdx + 1] = newField]
             ELSE IF fieldIdx = Len(old) THEN Append(old, newField)
             ELSE old
  IN [st EXCEPT !.fieldArrays[t.fields] = new,
                !.ret = RetUndefined]

\* updateColumnField(fieldIdx, newField): a new fields array
updateColumnField(st, this, fieldIdx, newField) ==
  LET t == st.objs[this]
      old == st.fieldArrays[t.fields]
      new == IF fieldIdx >= 0 /\ fieldIdx < Len(old) THEN [old EXCEPT ![fieldIdx + 1] = newField]
             ELSE IF fieldIdx = Len(old) THEN Append(old, newField)
             ELSE old
      ref == NewRef(st.fieldArrays)
  IN [st EXCEPT !.fieldArrays = (ref :> new) @@ st.fieldArrays,
                !.objs[this].fields = ref,
                !.ret = RetUndefined]

\* getColumnFilterDomain(field)
getColumnFilterDomain(t, field) ==
  CASE field.type \in {"real", "integer"} -> getNumericFieldDomain(t.allData, field)
    [] field.type = "boolean" -> [domain |-> <<TRUE, FALSE>>]
    [] field.type \in {"string", "date"} -> [domain |-> getOrdinalDomain(t.allData, field)]
    [] field.type = "timestamp" -> getTimestampFieldDomain(t.allData, field)
    [] OTHER -> [domain |-> getOrdinalDomain(t.allData, field)]

\* a getColumnFilterProps that computes filterProps and does not save them
getColumnFilterPropsUnsaved(st, this, columnName) ==
  LET t == st.objs[this]
      fieldIdx == getColumnFieldIdx(st, this, columnName).ret.v
      field == st.fieldArrays[t.fields][fieldIdx + 1]
      filterProps == getFilterProps(field, getColumnFilterDomain(t, field))
  IN IF fieldIdx < 0 THEN [st EXCEPT !.ret = RetNull]
     ELSE IF "filterProps" \in DOMAIN field THEN [st EXCEPT !.ret = Ret("value", field.filterProps)]
     ELSE [st EXCEPT !.ret = Ret("value", filterProps)]

\* getColumnFilterProps(columnName)
getColumnFilterProps(st, this, columnName) ==
  LET t == st.objs[this]
      fieldIdx == getColumnFieldIdx(st, this, columnName).ret.v
      field == st.fieldArrays[t.fields][fieldIdx + 1]
      filterProps == getFilterProps(field, getColumnFilterDomain(t, field))
      newField == [k \in DOMAIN field \cup {"filterProps"} |->
                     IF k = "filterProps" THEN filterProps ELSE field[k]]
  IN IF fieldIdx < 0 THEN [st EXCEPT !.ret = RetNull]
     ELSE IF "filterProps" \in DOMAIN field THEN [st EXCEPT !.ret = Ret("value", field.filterProps)]
     ELSE [updateColumnField(st, this, fieldIdx, newField) EXCEPT !.ret = Ret("value", filterProps)]

\* a filterTable that, with no filters, forgets to reset filteredIndexForDomain
FilterTableNoFiltersIndexOnly(t) ==
  [t EXCEPT !.filteredIndex = t.allIndexes]

\* filterTable, no filters: both index properties name allIndexes again
FilterTableNoFilters(t) ==
  [t EXCEPT !.filteredIndex = t.allIndexes,
            !.filteredIndexForDomain = t.allIndexes]

\* filterTable, the two closing assignments: filteredIndex takes the result's
\* filteredIndexForDomain or else the table's filteredIndexForDomain, then
\* filteredIndexForDomain takes the result's filteredIndex or else the
\* filteredIndex just assigned.  refDomain and refIndex name the result's arrays.
AssignFilterResult(t, filterResult, refDomain, refIndex) ==
  LET filteredIndex == IF filterResult.hasFilteredIndexForDomain THEN refDomain
                       ELSE t.filteredIndexForDomain
      filteredIndexForDomain == IF filterResult.hasFilteredIndex THEN refIndex
                                ELSE filteredIndex
  IN [t EXCEPT !.filteredIndex = filteredIndex,
               !.filteredIndexForDomain = filteredIndexForDomain]

\* a filterTable that returns on an empty filter list before it has stored
\* the new filterRecord and gpuFilter
filterTableEarlyReturn(st, this, filters, opt) ==
  LET t0 == st.objs[this]
      fields == st.fieldArrays[t0.fields]
      oldFilterRecord == t0.filterRecord
      filterRecord == getFilterRecord(t0.id, filters, opt)
      t1 == [t0 EXCEPT !.filterRecord = filterRecord,
                       !.gpuFilter = getGpuFilterProps(filters, t0.id, fields)]
      changedFilters == diffFilters(filterRecord, oldFilterRecord)
      shouldCalDomain == changedFilters.dynamicDomain
      shouldCalIndex == changedFilters.cpu
      filterResult ==
        filterDataByFilterTypes(shouldCalDomain, filterRecord.dynamicDomain,
                                shouldCalIndex, filterRecord.cpu,
                                t0.id, fields, t0.allData)
      refDomain == NewRef(st.arrays)
      arrays1 == IF filterResult.hasFilteredIndexForDomain
                   THEN (refDomain :> filterResult.filteredIndexForDomain) @@ st.arrays
                   ELSE st.arrays
      refIndex == NewRef(arrays1)
      arrays2 == IF filterResult.hasFilteredIndex
                   THEN (refIndex :> filterResult.filteredIndex) @@ arrays1
                   ELSE arrays1
  IN IF Len(filters) = 0
       THEN [st EXCEPT !.objs[this] = FilterTableNoFilters(t0),
                       !.ret = Ret("object", this)]
       ELSE [st EXCEPT !.objs[this] = AssignFilterResult(t1, filterResult, refDomain, refIndex),
                       !.arrays = arrays2,
                       !.ret = Ret("object", this)]

\* filterTable(filters, layers, opt) on the object this
filterTable(st, this, filters, opt) ==
  LET t0 == st.objs[this]
      fields == st.fieldArrays[t0.fields]
      oldFilterRecord == t0.filterRecord
      filterRecord == getFilterRecord(t0.id, filters, opt)
      t1 == [t0 EXCEPT !.filterRecord = filterRecord,
                       !.gpuFilter = getGpuFilterProps(filters, t0.id, fields)]
      changedFilters == diffFilters(filterRecord, oldFilterRecord)
      shouldCalDomain == changedFilters.dynamicDomain
      shouldCalIndex == changedFilters.cpu
      filterResult ==
        filterDataByFilterTypes(shouldCalDomain, filterRecord.dynamicDomain,
                                shouldCalIndex, filterRecord.cpu,
                                t0.id, fields, t0.allData)
      refDomain == NewRef(st.arrays)
      arrays1 == IF filterResult.hasFilteredIndexForDomain
                   THEN (refDomain :> filterResult.filteredIndexForDomain) @@ st.arrays
                   ELSE st.arrays
      refIndex == NewRef(arrays1)
      arrays2 == IF filterResult.hasFilteredIndex
                   THEN (refIndex :> filterResult.filteredIndex) @@ arrays1
                   ELSE arrays1
  IN IF Len(filters) = 0
       THEN [st EXCEPT !.objs[this] = FilterTableNoFilters(t1),
                       !.ret = Ret("object", this)]
       ELSE [st EXCEPT !.objs[this] = AssignFilterResult(t1, filterResult, refDomain, refIndex),
                       !.arrays = arrays2,
                       !.ret = Ret("object", this)]

\* a copyTable that hands back the original instead of a copy
copyTableSameObject(st, original) ==
  [st EXCEPT !.ret = Ret("object", original)]

\* copyTable(original): a new object with the original's properties
copyTable(st, original) ==
  [st EXCEPT !.objs = ("copied" :> st.objs[original]) @@ st.objs,
             !.ret = Ret("object", "copied")]

\* filterTableCPU, the shadow path: copy, seed the copy with the CPU cache,
\* filter the copy, store its result in the CPU cache of this
FilterTableCPUShadow(st, this, filters) ==
  LET st1 == copyTable(st, this)
      copied == st1.ret.v
      cached == st1.objs[this].filteredIdxCPU
      refEmpty == NewRef(st1.arrays)
      st2 == [st1 EXCEPT !.objs[copied].filterRecord = st1.objs[this].filterRecordCPU,
                         !.objs[copied].filteredIndex =
                            IF cached = Undefined THEN refEmpty ELSE cached,
                         !.arrays = IF cached = Undefined
                                      THEN (refEmpty :> <<>>) @@ st1.arrays
                                      ELSE st1.arrays]
      st3 == filterTable(st2, copied, filters, CpuOpt)
      filtered == st3.ret.v
  IN [st3 EXCEPT !.objs[this].filteredIdxCPU = st3.objs[filtered].filteredIndex,
                 !.objs[this].filterRecordCPU = st3.objs[filtered].filterRecord,
                 !.ret = Ret("object", filtered)]

\* a filterTableCPU that takes the shadow path for every non-empty filter list
filterTableCPUAlwaysShadow(st, this, filters) ==
  LET t == st.objs[this]
  IN IF Len(filters) = 0
       THEN [st EXCEPT !.objs[this].filteredIdxCPU = t.allIndexes,
                       !.objs[this].filterRecordCPU = getFilterRecord(t.id, filters, CpuOpt),
                       !.ret = Ret("object", this)]
     ELSE FilterTableCPUShadow(st, this, filters)

\* filterTableCPU(filters, layers)
filterTableCPU(st, this, filters) ==
  LET t == st.objs[this]
      hasGpu == \E k \in 1..Len(filters) : filters[k].gpu
  IN IF Len(filters) = 0
       THEN [st EXCEPT !.objs[this].filteredIdxCPU = t.allIndexes,
                       !.objs[this].filterRecordCPU = getFilterRecord(t.id, filters, CpuOpt),
                       !.ret = Ret("object", this)]
     ELSE IF ~hasGpu
       THEN [st EXCEPT !.objs[this].filteredIdxCPU = t.filteredIndex,
                       !.objs[this].filterRecordCPU = getFilterRecord(t.id, filters, CpuOpt),
                       !.ret = Ret("object", this)]
     ELSE FilterTableCPUShadow(st, this, filters)

\* the scale types of SCALE_TYPES, and one that is not
ScaleTypes == {"ordinal", "quantile", "quantize", "linear", "sqrt", "log", "point"}

\* a getColumnLayerDomain whose ordinal domain follows the filtered rows
getColumnLayerDomainFiltered(st, this, field, scaleType) ==
  LET t == st.objs[this]
      filteredIndexForDomain == st.arrays[t.filteredIndexForDomain]
  IN [st EXCEPT !.ret =
        IF scaleType \notin ScaleTypes THEN RetNull
        ELSE CASE scaleType \in {"ordinal", "point"} ->
                    Ret("value", Unique(IndexValues(filteredIndexForDomain, t.allData, field)))
               [] scaleType = "quantile" ->
                    Ret("value", getQuantileDomain(filteredIndexForDomain, t.allData, field))
               [] scaleType = "log" ->
                    Ret("value", getLogDomain(filteredIndexForDomain, t.allData, field))
               [] OTHER ->
                    Ret("value", getLinearDomain(filteredIndexForDomain, t.allData, field))]

\* getColumnLayerDomain(field, scaleType)
getColumnLayerDomain(st, this, field, scaleType) ==
  LET t == st.objs[this]
      filteredIndexForDomain == st.arrays[t.filteredIndexForDomain]
  IN [st EXCEPT !.ret =
        IF scaleType \notin ScaleTypes THEN RetNull
        ELSE CASE scaleType \in {"ordinal", "point"} ->
                    Ret("value", getOrdinalDomain(t.allData, field))
               [] scaleType = "quantile" ->
                    Ret("value", getQuantileDomain(filteredIndexForDomain, t.allData, field))
               [] scaleType = "log" ->
                    Ret("value", getLogDomain(filteredIndexForDomain, t.allData, field))
               [] OTHER ->
                    Ret("value", getLinearDomain(filteredIndexForDomain, t.allData, field))]

(* ------------------------- sortDatasetByColumn ------------------------- *)

SortModes == {"ASCENDING", "DESCENDING", "UNSORT"}

\* SORT_ORDER[mode] || SORT_ORDER.ASCENDING
SortBy(mode) == IF mode \in SortModes THEN mode ELSE "ASCENDING"

\* d3 ascending(x, y) and descending(x, y)
ascending(x, y) == IF x < y THEN 0 - 1 ELSE IF x > y THEN 1 ELSE 0

descending(x, y) == IF y < x THEN 0 - 1 ELSE IF y > x THEN 1 ELSE 0

\* the orders Array.prototype.sort can leave the indices in: every
\* arrangement the comparator on the raw cells accepts
SortedOrders(indexes, allData, fieldIndex, sortBy) ==
  LET cmp(a, b) == IF sortBy = "ASCENDING"
                     THEN ascending(allData[a + 1][fieldIndex + 1], allData[b + 1][fieldIndex + 1])
                     ELSE descending(allData[a + 1][fieldIndex + 1], allData[b + 1][fieldIndex + 1])
      n == Len(indexes)
  IN {p \in [1..n -> Range(indexes)] :
        /\ \A i, j \in 1..n : i # j => p[i] # p[j]
        /\ \A i, j \in 1..n : i < j => cmp(p[i], p[j]) <= 0}

\* a sort without the slice(): it works on the array it was given
SliceSameArray(st, ref) ==
  [st EXCEPT !.ret = Ret("int", ref)]

\* allIndexes.slice(): a new array with the same elements
Slice(st, ref) ==
  LET new == NewRef(st.arrays)
  IN [st EXCEPT !.arrays = (new :> st.arrays[ref]) @@ st.arrays, !.ret = Ret("int", new)]

\* the object literal {...dataset, sortColumn, sortOrder}
SortedDataset(st, dataset, sortColumn, sortOrder) ==
  [st EXCEPT !.objs = ("sorted" :> [st.objs[dataset] EXCEPT
                                      !.sortColumn = [defined |-> TRUE, entries |-> sortColumn],
                                      !.sortOrder = sortOrder]) @@ st.objs,
             !.ret = Ret("object", "sorted")]

\* an UNSORT that empties sortColumn and leaves sortOrder as it finds it
UnsortedKeepsOrder(st, dataset) ==
  SortedDataset(st, dataset, {}, st.objs[dataset].sortOrder)

\* sortDatasetByColumn, mode UNSORT: {...dataset, sortColumn: {}, sortOrder: null}
Unsorted(st, dataset) == SortedDataset(st, dataset, {}, Null)

\* a sortDatasetByColumn that sorts allIndexes itself
sortDatasetByColumnInPlace(st, dataset, column, mode, order) ==
  LET d == st.objs[dataset]
      fieldIndex == FindFieldIndex(st.fieldArrays[d.fields], column)
      sortBy == SortBy(mode)
      target == d.allIndexes
      st2 == [st EXCEPT !.arrays[target] = order]
  IN IF fieldIndex < 0 THEN [st EXCEPT !.ret = Ret("object", dataset)]
     ELSE IF sortBy = "UNSORT" THEN Unsorted(st, dataset)
     ELSE SortedDataset(st2, dataset, {<<column, sortBy>>}, target)

\* sortDatasetByColumn(dataset, column, mode); order is the arrangement the
\* sort leaves, one of SortedOrders
sortDatasetByColumn(st, dataset, column, mode, order) ==
  LET d == st.objs[dataset]
      fieldIndex == FindFieldIndex(st.fieldArrays[d.fields], column)
      sortBy == SortBy(mode)
      st1 == Slice(st, d.allIndexes)
      target == st1.ret.v
      st2 == [st1 EXCEPT !.arrays[target] = order]
  IN IF fieldIndex < 0 THEN [st EXCEPT !.ret = Ret("object", dataset)]
     ELSE IF sortBy = "UNSORT" THEN Unsorted(st, dataset)
     ELSE SortedDataset(st2, dataset, {<<column, sortBy>>}, target)

(* ------------------------------ the calls ------------------------------ *)

\* the record of the last call: its name, the object it was made on, its
\* arguments (filters, opt, a column name, a row index, a scale type or sort
\* mode), what it returned
Call(op, this, filters, opt, name, num, mode, ret) ==
  [op |-> op, this |-> this, filters |-> filters, opt |-> opt, name |-> name,
   num |-> num, mode |-> mode, ret |-> ret]

\* the objects the caller still holds when it calls the table again: it has
\* let go of the objects in dropped, which an earlier call returned
Held(o, dropped) == [id \in DOMAIN o \ dropped |-> o[id]]

\* the machine as a call finds it
Now(dropped) == State(Held(objs, dropped), arrays, fieldArrays, RetUndefined)

\* the variables after a call that left the machine in st
Becomes(st, call) ==
  \E n \in {Normalise(st)} :
    /\ objs' = n.objs
    /\ arrays' = n.arrays
    /\ fieldArrays' = n.fieldArrays
    /\ last' = call
    /\ UNCHANGED data

\* the table a caller constructs from the rows it has
Constructed(rowLists) ==
  /\ data \in [fields : {InputFields}, rows : rowLists]
  /\ \E n \in {Normalise(Constructor(data))} :
       /\ objs = n.objs
       /\ arrays = n.arrays
       /\ fieldArrays = n.fieldArrays
       /\ last = Call("constructor", "table", <<>>, NoOpt, "", 0, "", n.ret)

\* table.filterTable(filters, layers, opt); the caller has let go of the
\* shadow copy and the sorted dataset of earlier calls
FilterTable ==
  \E filters \in FilterLists, opt \in {NoOpt, CpuOpt} :
    \E st \in {filterTable(Now({"copied", "sorted"}), "table", filters, opt)} :
      Becomes(st, Call("filterTable", "table", filters, opt, "", 0, "", st.ret))

\* table.filterTableCPU(filters, layers)
FilterTableCPU ==
  \E filters \in FilterLists :
    \E st \in {filterTableCPU(Now({"copied", "sorted"}), "table", filters)} :
      Becomes(st, Call("filterTableCPU", "table", filters, CpuOpt, "", 0, "", st.ret))

\* the same two calls with the filter lists of FewFilterLists and no options
FilterTableFew ==
  \E filters \in FewFilterLists :
    \E st \in {filterTable(Now({"copied", "sorted"}), "table", filters, NoOpt)} :
      Becomes(st, Call("filterTable", "table", filters, NoOpt, "", 0, "", st.ret))

FilterTableCPUFew ==
  \E filters \in FewFilterLists :
    \E st \in {filterTableCPU(Now({"copied", "sorted"}), "table", filters)} :
      Becomes(st, Call("filterTableCPU", "table", filters, CpuOpt, "", 0, "", st.ret))

GetColumnField ==
  \E columnName \in ColumnNames :
    \E st \in {getColumnField(Now({"sorted"}), "table", columnName)} :
      Becomes(st, Call("getColumnField", "table", <<>>, NoOpt, columnName, 0, "", st.ret))

GetColumnFieldIdx ==
  \E columnName \in ColumnNames :
    \E st \in {getColumnFieldIdx(Now({"sorted"}), "table", columnName)} :
      Becomes(st, Call("getColumnFieldIdx", "table", <<>>, NoOpt, columnName, 0, "", st.ret))

GetValue ==
  \E columnName \in ColumnNames, rowIdx \in 0..(MaxRows - 1) :
    \E st \in {getValue(Now({"sorted"}), "table", columnName, rowIdx)} :
      Becomes(st, Call("getValue", "table", <<>>, NoOpt, columnName, rowIdx, "", st.ret))

GetColumnFilterProps ==
  \E columnName \in ColumnNames :
    \E st \in {getColumnFilterProps(Now({"sorted"}), "table", columnName)} :
      Becomes(st, Call("getColumnFilterProps", "table", <<>>, NoOpt, columnName, 0, "", st.ret))

GetColumnLayerDomain ==
  \E i \in 1..Len(fieldArrays[objs["table"].fields]), scaleType \in ScaleTypes \cup {"band"} :
    \E field \in {fieldArrays[objs["table"].fields][i]} :
      \E st \in {getColumnLayerDomain(Now({"sorted"}), "table", field, scaleType)} :
        Becomes(st, Call("getColumnLayerDomain", "table", <<>>, NoOpt, field.name, 0, scaleType, st.ret))

\* fields of a dataset: up to MaxFields
MaxFields == 3

\* the field names of the datasets with point columns
PairNames ==
  {"lat", "lng", "lon", "x_lat", "x_lng", "x_lon", "X_LAT", "latitude", "longitude", "name"}

TripNames == <<"pickup_lat", "pickup_lng", "dropoff_lat", "dropoff_lng", "name">>

\* data.fields with the names of a list
NamedFields(names) == [i \in 1..Len(names) |-> [name |-> names[i], type |-> "real", format |-> ""]]

PairFieldLists ==
  {NamedFields(names) : names \in UNION {[1..n -> PairNames] : n \in 0..MaxFields} \cup {TripNames}}

\* the table a caller constructs from fields of PairFieldLists and no rows
ConstructedPairs ==
  /\ data \in [fields : PairFieldLists, rows : {<<>>}]
  /\ \E n \in {Normalise(Constructor(data))} :
       /\ objs = n.objs
       /\ arrays = n.arrays
       /\ fieldArrays = n.fieldArrays
       /\ last = Call("constructor", "table", <<>>, NoOpt, "", 0, "", n.ret)

\* findPointFieldPairs(table.fields), the exported function
FindPointFieldPairs ==
  \E st \in {[Now({}) EXCEPT !.ret = Ret("value", findPointFieldPairs(fieldArrays[objs["table"].fields]))]} :
    Becomes(st, Call("findPointFieldPairs", "table", <<>>, NoOpt, "", 0, "", st.ret))

\* the filter lists and options under which getFilterRecord puts no filter
\* in the dynamicDomain group
FixedDomainCalls ==
  {c \in [filters : FilterLists, opt : {NoOpt, CpuOpt}] :
     getFilterRecord(DataId, c.filters, c.opt).dynamicDomain = <<>>}

\* table.filterTable(filters, layers, opt) with the filters of FixedDomainCalls
FilterTableFixed ==
  \E c \in FixedDomainCalls :
    \E st \in {filterTable(Now({"copied", "sorted"}), "table", c.filters, c.opt)} :
      Becomes(st, Call("filterTable", "table", c.filters, c.opt, "", 0, "", st.ret))

\* the types a caller gives a field it replaces
NewTypes == {"real"}

\* table.updateColumnField(fieldIdx, newField) at a position of fields, with
\* the field found there under another type
UpdateColumnField ==
  \E fieldIdx \in 0..(Len(fieldArrays[objs["table"].fields]) - 1), type \in NewTypes :
    \E newField \in {[fieldArrays[objs["table"].fields][fieldIdx + 1] EXCEPT !.type = type]} :
      \E st \in {updateColumnField(Now({"sorted"}), "table", fieldIdx, newField)} :
        Becomes(st, Call("updateColumnField", "table", <<>>, NoOpt, newField.name, fieldIdx,
                            type, st.ret))

\* the same two calls on the first field only
UpdateFirstColumnField ==
  \E type \in NewTypes :
    \E newField \in {[fieldArrays[objs["table"].fields][1] EXCEPT !.type = type]} :
      \E st \in {updateColumnField(Now({"sorted"}), "table", 0, newField)} :
        Becomes(st, Call("updateColumnField", "table", <<>>, NoOpt, newField.name, 0, type, st.ret))

GetFirstColumnFilterProps ==
  \E columnName \in {InputFields[1].name} :
    \E st \in {getColumnFilterProps(Now({"sorted"}), "table", columnName)} :
      Becomes(st, Call("getColumnFilterProps", "table", <<>>, NoOpt, columnName, 0, "", st.ret))

\* sortDatasetByColumn(dataset, column, mode) on any object the caller holds
SortDatasetByColumn ==
  \E dataset \in DOMAIN objs, column \in ColumnNames, mode \in SortModes \cup {"NONE"} :
    LET d == objs[dataset]
        fieldIndex == FindFieldIndex(fieldArrays[d.fields], column)
        orders == IF fieldIndex < 0 \/ SortBy(mode) = "UNSORT" THEN {<<>>}
                  ELSE SortedOrders(arrays[d.allIndexes], d.allData, fieldIndex, SortBy(mode))
    IN \E order \in orders :
         \E st \in {sortDatasetByColumn(Now({}), dataset, column, mode, order)} :
           Becomes(st, Call("sortDatasetByColumn", dataset, <<>>, NoOpt, column, 0, mode,
                               st.ret))

\* sortDatasetByColumn on the table or its shadow copy, by the first field,
\* after the caller let go of the dataset of an earlier sort
SortByFirstColumn ==
  \E dataset \in DOMAIN objs \ {"sorted"}, mode \in SortModes :
    \E column \in {InputFields[1].name} :
      LET d == objs[dataset]
          fieldIndex == FindFieldIndex(fieldArrays[d.fields], column)
          orders == IF fieldIndex < 0 \/ SortBy(mode) = "UNSORT" THEN {<<>>}
                    ELSE SortedOrders(arrays[d.allIndexes], d.allData, fieldIndex, SortBy(mode))
      IN \E order \in orders :
           \E st \in {sortDatasetByColumn(Now({"sorted"}), dataset, column, mode, order)} :
             Becomes(st, Call("sortDatasetByColumn", dataset, <<>>, NoOpt, column, 0, mode,
                                 st.ret))

(* -------------------------- the specifications ------------------------- *)

\* filtering: every filter list and both option sets, on the prefixes of BaseRows
Init == Constructed(PrefixRowLists)

Next ==
  \/ FilterTable
  \/ FilterTableCPU

Spec == Init /\ [][Next]_vars

\* the column queries, between filter calls

NextColumns ==
  \/ FilterTableFew
  \/ FilterTableCPUFew
  \/ GetColumnField
  \/ GetColumnFieldIdx
  \/ GetValue
  \/ GetColumnFilterProps

SpecColumns == Init /\ [][NextColumns]_vars

\* the layer domains, between filter calls, on every dataset
InitAll == Constructed(RowLists)

NextDomain ==
  \/ FilterTableFew
  \/ FilterTableCPUFew
  \/ GetColumnLayerDomain

SpecDomain == InitAll /\ [][NextDomain]_vars

\* sorting, between filter calls, on every dataset
NextSort ==
  \/ FilterTableFew
  \/ SortDatasetByColumn

SpecSort == InitAll /\ [][NextSort]_vars

\* the calls that replace fields, between filter calls
NextFields ==
  \/ FilterTableFew
  \/ FilterTableCPUFew
  \/ UpdateColumnField
  \/ GetColumnFilterProps

SpecFields == Init /\ [][NextFields]_vars

\* point-field-pair detection, on datasets with point columns
InitPairs == ConstructedPairs

NextPairs == FindPointFieldPairs

SpecPairs == InitPairs /\ [][NextPairs]_vars

\* the layer domains of a table whose filters all have fixed domains
NextFixed ==
  \/ FilterTableFixed
  \/ GetColumnLayerDomain

SpecFixed == InitAll /\ [][NextFixed]_vars

\* every call that assigns an index array or the fields, in any order
NextEvery ==
  \/ FilterTableFew
  \/ FilterTableCPUFew
  \/ UpdateFirstColumnField
  \/ GetFirstColumnFilterProps
  \/ SortByFirstColumn

SpecEvery == Init /\ [][NextEvery]_vars

(* ---------------------------- the properties --------------------------- *)

Table == objs["table"]

\* the index array a property of an object names
IndexArray(id, prop) == arrays[objs[id][prop]]

\* the same in the state a step leads to
IndexArrayAfter(id, prop) == arrays'[objs'[id][prop]]

Fields(id) == fieldArrays[objs[id].fields]

FieldNames(id) == {Fields(id)[i].name : i \in 1..Len(Fields(id))}

\* the row indices of the constructor's rows, 0 .. N-1 ascending
AllRowIndices == [i \in 1..Len(data.rows) |-> i - 1]

\* a row of the constructor's data passes a filter: its typed value in the
\* filter's field lies in the filter's range
RowPasses(filter, i) ==
  LET field == Fields("table")[filter.fieldIdx + 1]
      value == valueAccessor(field, data.rows[i + 1])
  IN filter.value[1] <= value /\ value <= filter.value[2]

\* the ascending list of the row indices whose rows pass every filter of group
RowsPassing(group) ==
  SortedSeq({i \in Range(AllRowIndices) : \A k \in 1..Len(group) : RowPasses(group[k], i)})

StrictlyIncreasing(s) == \A i, j \in 1..Len(s) : i < j => s[i] < s[j]

\* s is a strictly increasing selection of the elements of all
IsSubsequence(s, all) == StrictlyIncreasing(s) /\ Range(s) \subseteq Range(all)

HasGpuFilter(filters) == \E k \in 1..Len(filters) : filters[k].gpu

\* C1: after a filterTable call with a non-empty filter list, filteredIndex is
\* the ascending list of the rows passing every filter of the new record's cpu
\* group and filteredIndexForDomain that of the rows passing every filter of
\* its dynamicDomain group.
C1_RenderAndDomainSets ==
  (last.op = "filterTable" /\ last.filters # <<>>) =>
    /\ Table.filterRecord = getFilterRecord(DataId, last.filters, last.opt)
    /\ IndexArray("table", "filteredIndex") = RowsPassing(Table.filterRecord.cpu)
    /\ IndexArray("table", "filteredIndexForDomain") = RowsPassing(Table.filterRecord.dynamicDomain)

\* C2: a filterTable call that repeats the filters and options of the
\* filterTable call right before it leaves filteredIndex and
\* filteredIndexForDomain as they were.
C2_RepeatedFilterIsNoOp ==
  [][(/\ last.op = "filterTable"
      /\ last'.op = "filterTable"
      /\ last'.filters = last.filters
      /\ last'.opt = last.opt)
     => /\ IndexArrayAfter("table", "filteredIndex") = IndexArray("table", "filteredIndex")
        /\ IndexArrayAfter("table", "filteredIndexForDomain") =
             IndexArray("table", "filteredIndexForDomain")]_vars

\* C3: right after construction and right after a filterTable call with an
\* empty filter list, filteredIndex and filteredIndexForDomain equal
\* allIndexes, which is 0 .. N-1 ascending, N the number of rows.
C3_NoFiltersAllRows ==
  (last.op = "constructor" \/ (last.op = "filterTable" /\ last.filters = <<>>)) =>
    /\ IndexArray("table", "allIndexes") = AllRowIndices
    /\ Len(IndexArray("table", "allIndexes")) = Len(Table.allData)
    /\ IndexArray("table", "filteredIndex") = IndexArray("table", "allIndexes")
    /\ IndexArray("table", "filteredIndexForDomain") = IndexArray("table", "allIndexes")

\* C3 happens: an empty filterTable call on a table of MaxRows rows whose CPU
\* cache an earlier filterTableCPU call had narrowed
C3_Witness ==
  /\ last.op = "filterTable"
  /\ last.filters = <<>>
  /\ Len(Table.allData) = MaxRows
  /\ Table.filteredIdxCPU # Undefined
  /\ IndexArray("table", "filteredIdxCPU") # AllRowIndices
  /\ IndexArray("table", "filteredIndex") = AllRowIndices

\* C4: in every state, filteredIndex and filteredIndexForDomain of the table
\* and of the shadow copy are strictly increasing selections of allIndexes.
C4_FilteredAreSubsequences ==
  \A id \in DOMAIN objs \cap {"table", "copied"} :
    /\ IsSubsequence(IndexArray(id, "filteredIndex"), IndexArray(id, "allIndexes"))
    /\ IsSubsequence(IndexArray(id, "filteredIndexForDomain"), IndexArray(id, "allIndexes"))

\* C4 happens: a shadow copy exists, its filters match no row, and the table
\* itself renders one row of several
C4_Witness ==
  /\ "copied" \in DOMAIN objs
  /\ Len(Table.allData) = MaxRows
  /\ IndexArray("copied", "filteredIndex") = <<>>
  /\ Len(IndexArray("table", "filteredIndex")) = 1

\* the properties of the table that filterTableCPU must leave alone
Untouched(t, a, f) ==
  [id |-> t.id, allData |-> t.allData, allIndexes |-> a[t.allIndexes],
   filteredIndex |-> a[t.filteredIndex],
   filteredIndexForDomain |-> a[t.filteredIndexForDomain],
   fields |-> f[t.fields], gpuFilter |-> t.gpuFilter,
   filterRecord |-> t.filterRecord, sortColumn |-> t.sortColumn,
   sortOrder |-> t.sortOrder]

\* C5: filterTableCPU with a GPU-flagged filter returns a shadow copy, not
\* the table, and of the table it changes filteredIdxCPU and filterRecordCPU
\* only: filteredIndex, filteredIndexForDomain, filterRecord, gpuFilter and
\* the rest are as before.
C5_ShadowLeavesTableAlone ==
  [][(last'.op = "filterTableCPU" /\ HasGpuFilter(last'.filters))
     => /\ last'.ret = Ret("object", "copied")
        /\ "copied" \in DOMAIN objs'
        /\ Untouched(objs'["table"], arrays', fieldArrays') =
             Untouched(objs["table"], arrays, fieldArrays)
        /\ arrays'[objs'["table"].filteredIdxCPU] = arrays'[objs'["copied"].filteredIndex]
        /\ objs'["table"].filterRecordCPU = objs'["copied"].filterRecord]_vars

\* C5 happens: the shadow copy's filteredIndex and filterRecord differ from
\* the table's after the call
C5_Witness ==
  /\ last.op = "filterTableCPU"
  /\ HasGpuFilter(last.filters)
  /\ "copied" \in DOMAIN objs
  /\ Len(Table.allData) = MaxRows
  /\ ~IsUndefined(Table.filterRecord)
  /\ objs["copied"].filterRecord # Table.filterRecord
  /\ IndexArray("copied", "filteredIndex") # IndexArray("table", "filteredIndex")

\* the typed values of a field in the constructor's rows, row by row
TypedColumn(field) == [i \in 1..Len(data.rows) |-> valueAccessor(field, data.rows[i])]

\* dom lists every value of col once, in the order the values first occur
IsFirstOccurrenceOrder(dom, col) ==
  /\ Range(dom) = Range(col)
  /\ \A i, j \in 1..Len(dom) :
       i < j => /\ dom[i] # dom[j]
                /\ Min({k \in 1..Len(col) : col[k] = dom[i]}) <
                     Min({k \in 1..Len(col) : col[k] = dom[j]})

OrdinalScales == {"ordinal", "point"}

\* C6: in every state and for every field, getColumnLayerDomain with an
\* ordinal or point scale returns the distinct typed values of the field over
\* all the constructor's rows, in first-occurrence order; the rows never
\* change, so no filterTable or filterTableCPU call changes the value, and a
\* call that was made returned it.
C6_OrdinalDomainOfAllRows ==
  /\ \A i \in 1..Len(Fields("table")), scaleType \in OrdinalScales :
       LET ret == getColumnLayerDomain(Now({}), "table", Fields("table")[i], scaleType).ret
       IN ret.kind = "value" /\ IsFirstOccurrenceOrder(ret.v, TypedColumn(Fields("table")[i]))
  /\ (last.op = "getColumnLayerDomain" /\ last.mode \in OrdinalScales) =>
       /\ last.ret.kind = "value"
       /\ \E i \in 1..Len(Fields("table")) :
            /\ Fields("table")[i].name = last.name
            /\ IsFirstOccurrenceOrder(last.ret.v, TypedColumn(Fields("table")[i]))

\* C6 happens: an ordinal domain is asked for while the rows kept for domains
\* hold fewer distinct values of the field than all the rows do
C6_Witness ==
  /\ last.op = "getColumnLayerDomain"
  /\ last.mode \in OrdinalScales
  /\ ~IsUndefined(Table.filterRecord)
  /\ Len(last.ret.v) = 2
  /\ \E i \in 1..Len(Fields("table")) :
       /\ Fields("table")[i].name = last.name
       /\ Cardinality(Range(IndexValues(IndexArray("table", "filteredIndexForDomain"),
                                        Table.allData, Fields("table")[i]))) < 2

SortOp == "sortDatasetByColumn"

\* the names of the fields of an object before a step
FieldNamesBefore(id) == FieldNames(id)

\* sortColumn with no entry
EmptySortColumn == [defined |-> TRUE, entries |-> {}]

\* the dataset a sortDatasetByColumn call returned
Returned == objs[last.ret.v]

\* C7, as the claim states it: whatever the dataset, the column name and the
\* sort state before, the dataset a sortDatasetByColumn call with mode UNSORT
\* returns has no sortOrder (null, or never set) and no entry in sortColumn.
C7_UnsortAnyColumn ==
  (last.op = SortOp /\ last.mode = "UNSORT") =>
    /\ Returned.sortOrder \in {Null, Undefined}
    /\ Returned.sortColumn.entries = {}

\* C7, amended: a sortDatasetByColumn call with mode UNSORT and a column name
\* that a field of the dataset has returns a new dataset with sortOrder null
\* and sortColumn empty, whatever the sort state before; with a column name no
\* field has it returns the dataset it was given, unchanged.
C7_UnsortExistingColumn ==
  [][(last'.op = SortOp /\ last'.mode = "UNSORT") =>
       IF last'.name \in FieldNamesBefore(last'.this)
         THEN /\ last'.ret = Ret("object", "sorted")
              /\ objs'["sorted"].sortOrder = Null
              /\ objs'["sorted"].sortColumn = EmptySortColumn
         ELSE /\ last'.ret = Ret("object", last'.this)
              /\ objs' = objs
              /\ arrays' = arrays
              /\ fieldArrays' = fieldArrays]_vars

\* C7 happens: UNSORT on an existing column, of a dataset that an earlier
\* sortDatasetByColumn call returned, while filters hide rows of the table
C7_Witness ==
  /\ last.op = SortOp
  /\ last.mode = "UNSORT"
  /\ last.this = "sorted"
  /\ last.name \in FieldNames("table")
  /\ Returned.sortOrder = Null
  /\ Len(Table.allData) = MaxRows
  /\ IndexArray("table", "filteredIndex") # AllRowIndices

\* the raw cell of a row in the column of a name
RawCell(rowIdx, columnName) ==
  data.rows[rowIdx + 1][FindFieldIndex(Fields("table"), columnName) + 1]

\* order lists its rows by their raw cells in the column, in the direction of mode
OrderedBy(order, columnName, mode) ==
  \A i, j \in 1..Len(order) :
    i < j => IF mode = "ASCENDING"
               THEN RawCell(order[i], columnName) <= RawCell(order[j], columnName)
               ELSE RawCell(order[i], columnName) >= RawCell(order[j], columnName)

IsPermutation(s, t) ==
  /\ Len(s) = Len(t)
  /\ \A x \in Range(s) \cup Range(t) :
       Cardinality({i \in 1..Len(s) : s[i] = x}) = Cardinality({i \in 1..Len(t) : t[i] = x})

\* C8: a sortDatasetByColumn call with mode ASCENDING or DESCENDING and a
\* column name that a field has returns a dataset whose sortOrder is a
\* permutation of all of allIndexes, ordered by the column's cells in the
\* direction of the mode, and whose sortColumn is {column: mode}; the
\* allIndexes, filteredIndex and filteredIndexForDomain of the dataset it was
\* given (which the result shares) and of the table hold what they held.
C8_SortOrderOverAllRows ==
  [][(/\ last'.op = SortOp
      /\ last'.mode \in {"ASCENDING", "DESCENDING"}
      /\ last'.name \in FieldNamesBefore(last'.this))
     => /\ last'.ret = Ret("object", "sorted")
        /\ IsPermutation(arrays'[objs'["sorted"].sortOrder], arrays[objs[last'.this].allIndexes])
        /\ Range(arrays'[objs'["sorted"].sortOrder]) = 0..(Len(data.rows) - 1)
        /\ OrderedBy(arrays'[objs'["sorted"].sortOrder], last'.name, last'.mode)
        /\ objs'["sorted"].sortColumn =
             [defined |-> TRUE, entries |-> {<<last'.name, last'.mode>>}]
        /\ \A prop \in {"allIndexes", "filteredIndex", "filteredIndexForDomain"} :
             /\ arrays'[objs'["sorted"][prop]] = arrays[objs[last'.this][prop]]
             /\ arrays'[objs'["table"][prop]] = arrays[objs["table"][prop]]]_vars

\* C8 happens: a descending sort put the rows in another order than
\* allIndexes while the filters show one row of several
C8_Witness ==
  /\ last.op = SortOp
  /\ last.mode = "DESCENDING"
  /\ last.name \in FieldNames("table")
  /\ Len(Table.allData) = MaxRows
  /\ IndexArray("sorted", "sortOrder") # IndexArray("sorted", "allIndexes")
  /\ Len(IndexArray("table", "filteredIndex")) = 1
  /\ IndexArray("sorted", "allIndexes") = AllRowIndices

ColumnQueries == {"getColumnField", "getColumnFieldIdx", "getValue", "getColumnFilterProps"}

\* what each column query hands back for a name no field has
NoSuchColumn(op) ==
  CASE op = "getColumnField" -> RetUndefined
    [] op = "getColumnFieldIdx" -> Ret("int", 0 - 1)
    [] op = "getValue" -> RetNull
    [] op = "getColumnFilterProps" -> RetNull

\* C9: a column query with a name that no field of the table has, compared
\* exactly and with case, does not throw: getColumnField returns undefined,
\* getColumnFieldIdx -1, getValue null and getColumnFilterProps null, and the
\* objects, their fields, rows, index arrays and filter records stay as they
\* were.
C9_MissingColumnIsSilent ==
  [][(last'.op \in ColumnQueries /\ last'.name \notin FieldNamesBefore("table"))
     => /\ last'.ret.kind # "throw"
        /\ last'.ret.kind = NoSuchColumn(last'.op).kind
        /\ last'.ret.v = NoSuchColumn(last'.op).v
        /\ objs' = objs
        /\ arrays' = arrays
        /\ fieldArrays' = fieldArrays]_vars

\* C9 happens: getValue is asked for "A", which differs from the field "a"
\* in case only, on a table with rows, filters and a shadow copy
C9_Witness ==
  /\ last.op = "getValue"
  /\ last.name = "A"
  /\ "a" \in FieldNames("table")
  /\ last.ret = RetNull
  /\ Len(Table.allData) = MaxRows
  /\ "copied" \in DOMAIN objs
  /\ IndexArray("table", "filteredIndex") # AllRowIndices

\* a field carries filterProps
HasFilterProps(field) == "filterProps" \in DOMAIN field

\* field new is field old with filterProps added and nothing else changed
AddsFilterProps(new, old) ==
  /\ DOMAIN new = DOMAIN old \cup {"filterProps"}
  /\ \A k \in DOMAIN old : new[k] = old[k]

FilterPropsOp == "getColumnFilterProps"

\* C10: a getColumnFilterProps call that returns a value leaves the field of
\* that name carrying the value as filterProps; no call of any kind changes or
\* removes the filterProps a field carries, so a later getColumnFilterProps
\* call on that field returns the cached value, and it leaves fields
\* unchanged; the first call on a field adds filterProps to that field's
\* entry and changes no other entry.
C10_FilterPropsCached ==
  [][/\ Len(fieldArrays'[objs'["table"].fields]) = Len(Fields("table"))
     /\ \A i \in 1..Len(Fields("table")) :
          LET old == Fields("table")[i]
              new == fieldArrays'[objs'["table"].fields][i]
              asked == last'.op = FilterPropsOp /\ last'.name = old.name
          IN /\ HasFilterProps(old) => new = old
             /\ (asked /\ HasFilterProps(old)) => last'.ret = Ret("value", old.filterProps)
             /\ (asked /\ ~HasFilterProps(old)) =>
                  /\ AddsFilterProps(new, old)
                  /\ last'.ret = Ret("value", new.filterProps)
             /\ ~asked => new = old]_vars

\* C10 happens: getColumnFilterProps returns the cached value of a field
\* whose filterProps an earlier call saved before a filterTableCPU call made
\* the shadow copy, whose fields carry them too
C10_Witness ==
  /\ last.op = FilterPropsOp
  /\ last.ret.kind = "value"
  /\ "copied" \in DOMAIN objs
  /\ Len(Table.allData) = MaxRows
  /\ IndexArray("copied", "filteredIndex") # AllRowIndices
  /\ \E i \in 1..Len(Fields("copied")) :
       /\ Fields("copied")[i].name = last.name
       /\ HasFilterProps(Fields("copied")[i])
       /\ Fields("copied")[i].filterProps = last.ret.v
       /\ Fields("table")[i] = Fields("copied")[i]

\* what a shadow copy holds, by content
Contents(o, a, f) ==
  [id |-> o.id, allData |-> o.allData, allIndexes |-> a[o.allIndexes],
   filteredIndex |-> a[o.filteredIndex],
   filteredIndexForDomain |-> a[o.filteredIndexForDomain],
   fields |-> f[o.fields], gpuFilter |-> o.gpuFilter, filterRecord |-> o.filterRecord]

\* C11: updateColumnField(i, newField) at a position i of fields leaves the
\* table with as many fields as before, newField at position i and every
\* other field as it was; allData, allIndexes, filteredIndex,
\* filteredIndexForDomain, filterRecord and gpuFilter are unchanged, and the
\* shadow copy of an earlier filterTableCPU call keeps the fields it had.
C11_UpdateReplacesOneField ==
  [][last'.op = "updateColumnField" =>
       LET old == Fields("table")
           new == fieldArrays'[objs'["table"].fields]
           t == objs["table"]
           u == objs'["table"]
       IN /\ Len(new) = Len(old)
          /\ new[last'.num + 1] = [old[last'.num + 1] EXCEPT !.type = last'.mode]
          /\ \A j \in 1..Len(old) : j # last'.num + 1 => new[j] = old[j]
          /\ [Contents(u, arrays', fieldArrays') EXCEPT !.fields = old] =
               Contents(t, arrays, fieldArrays)
          /\ "copied" \in DOMAIN objs =>
               /\ "copied" \in DOMAIN objs'
               /\ Contents(objs'["copied"], arrays', fieldArrays') =
                    Contents(objs["copied"], arrays, fieldArrays)]_vars

\* C11 happens: a field is replaced by one of another type while a shadow
\* copy still holds the fields array from before, and filters hide rows
C11_Witness ==
  /\ last.op = "updateColumnField"
  /\ "copied" \in DOMAIN objs
  /\ Fields("copied") # Fields("table")
  /\ Fields("table")[last.num + 1].type = last.mode
  /\ Fields("copied")[last.num + 1].type # last.mode
  /\ Len(Table.allData) = MaxRows
  /\ IndexArray("table", "filteredIndexForDomain") # AllRowIndices

\* the names of the table's fields, in order
FieldNameList == [i \in 1..Len(Fields("table")) |-> Fields("table")[i].name]

\* the lower-cased name of the table's field at place i (1-based)
LowerName(i) == toLowerCase(Fields("table")[i].name)

\* the stems s can be cut to: s is the stem followed by suffix
Stems(s, suffix) == {SubSeq(s, 1, k) : k \in {k \in 0..Len(s) : SubSeq(s, 1, k) \o suffix = s}}

\* the places of the partners of field i under suffix pair p: their lower-cased
\* name is that of i with the trailing first suffix replaced by the second
Partners(i, p) ==
  {j \in 1..Len(Fields("table")) :
     \E stem \in Stems(LowerName(i), TRIP_POINT_FIELDS[p][1]) :
       LowerName(j) = stem \o TRIP_POINT_FIELDS[p][2]}

\* the suffix pairs under which field i has a partner
PairsOf(i) == {p \in 1..Len(TRIP_POINT_FIELDS) : Partners(i, p) # {}}

\* pairs is what the claim says of the table's fields
IsPointFieldPairs(pairs) ==
  /\ [h \in 1..Len(pairs) |-> pairs[h].pair.lat.fieldIdx + 1] =
       SortedSeq({i \in 1..Len(Fields("table")) : PairsOf(i) # {}})
  /\ \A h \in 1..Len(pairs) :
       LET i == pairs[h].pair.lat.fieldIdx + 1
           p == Min(PairsOf(i))
       IN /\ pairs[h].suffix = TRIP_POINT_FIELDS[p]
          /\ pairs[h].pair.lng.fieldIdx + 1 = Min(Partners(i, p))
          /\ pairs[h].pair.lat.value = Fields("table")[i].name
          /\ pairs[h].pair.lng.value = Fields("table")[Min(Partners(i, p))].name
  /\ FieldNameList = TripNames =>
       [h \in 1..Len(pairs) |-> pairs[h].defaultName] = <<"pickup", "dropoff">>

\* C12: findPointFieldPairs returns, in field order, one entry for each field
\* that under some suffix pair ends with the first suffix and has a partner
\* with the second; the entry is that of the first such suffix pair and of the
\* first partner, with the fields' own names; other fields give no entry, and
\* the fields pickup_lat, pickup_lng, dropoff_lat, dropoff_lng, name give the
\* two pairs pickup and dropoff.  It holds of the fieldPairs the constructor
\* stored and of what a call returned.
C12_PointFieldPairs ==
  /\ IsPointFieldPairs(Table.fieldPairs)
  /\ last.op = "findPointFieldPairs" => IsPointFieldPairs(last.ret.v)

\* C12 happens: a field ends with lat and has partners under two suffix
\* pairs, and the call returned one entry for it, with the first pair
C12_Witness ==
  /\ last.op = "findPointFieldPairs"
  /\ \E i \in 1..Len(Fields("table")) : Cardinality(PairsOf(i)) = 2
  /\ Len(last.ret.v) = 1
  /\ last.ret.v[1].suffix = TRIP_POINT_FIELDS[1]

\* the groups that the diff of a filterTable call with these filters and
\* options reports as changed, against the record the table holds
ChangedGroups(filters, opt) ==
  diffFilters(getFilterRecord(DataId, filters, opt), Table.filterRecord)

\* C13: in a filterTable call with a non-empty filter list, a group the diff
\* reports as unchanged keeps its result: filteredIndex is as before when the
\* cpu group is unchanged, filteredIndexForDomain is as before when the
\* dynamicDomain group is unchanged, whatever happened to the other group.
C13_UnchangedGroupReused ==
  [][(last'.op = "filterTable" /\ last'.filters # <<>>) =>
       /\ ~ChangedGroups(last'.filters, last'.opt).cpu =>
            IndexArrayAfter("table", "filteredIndex") = IndexArray("table", "filteredIndex")
       /\ ~ChangedGroups(last'.filters, last'.opt).dynamicDomain =>
            IndexArrayAfter("table", "filteredIndexForDomain") =
              IndexArray("table", "filteredIndexForDomain")]_vars

\* C14: when filterTableCPU is called with the filters of the filterTable
\* call right before it, whatever the calls before those, the table's
\* filteredIdxCPU is the ascending list of the rows that pass every filter of
\* the list, the GPU-flagged ones included.
C14_CpuIndexAfterFilterTable ==
  [][(/\ last.op = "filterTable"
      /\ last'.op = "filterTableCPU"
      /\ last'.filters = last.filters)
     => IndexArrayAfter("table", "filteredIdxCPU") = RowsPassing(last'.filters)]_vars

\* the scales whose domain is computed over filteredIndexForDomain
IndexedScales == {"linear", "sqrt", "quantize", "log", "quantile"}

\* what getColumnLayerDomain returns on the table as constructed
UnfilteredLayerDomain(field, scaleType) ==
  getColumnLayerDomain(Constructor(data), "table", field, scaleType).ret

\* C15: while no filterTable call classifies a filter in the dynamicDomain
\* group, filteredIndexForDomain equals allIndexes in every state, and a
\* getColumnLayerDomain call with a linear, sqrt, quantize, log or quantile
\* scale returns what it returns on the unfiltered table.
C15_FixedDomainsKeepDomainIndex ==
  /\ IndexArray("table", "filteredIndexForDomain") = IndexArray("table", "allIndexes")
  /\ (last.op = "getColumnLayerDomain" /\ last.mode \in IndexedScales) =>
       \E i \in 1..Len(Fields("table")) :
         /\ Fields("table")[i].name = last.name
         /\ last.ret = UnfilteredLayerDomain(Fields("table")[i], last.mode)

\* C16: every filterTable call, with or without filters and whatever the
\* diff reports, leaves filterRecord equal to the classification of its
\* filters under its options and gpuFilter equal to the GPU-filter parameters
\* of its filters; filterTableCPU changes neither on the table, so the record
\* the next filterTable call diffs against is that of the filterTable call
\* before it.
C16_RecordOfLastFilterCall ==
  [][/\ last'.op = "filterTable" =>
          /\ objs'["table"].filterRecord = getFilterRecord(DataId, last'.filters, last'.opt)
          /\ objs'["table"].gpuFilter = getGpuFilterProps(last'.filters, DataId, Fields("table"))
     /\ last'.op = "filterTableCPU" =>
          /\ objs'["table"].filterRecord = Table.filterRecord
          /\ objs'["table"].gpuFilter = Table.gpuFilter]_vars

\* C16 happens: a filterTable call with no filters emptied the record and the
\* GPU-filter parameters of a table whose CPU cache still has the record of
\* an earlier call with a GPU-flagged filter
C16_Witness ==
  /\ last.op = "filterTable"
  /\ last.filters = <<>>
  /\ Table.filterRecord = getFilterRecord(DataId, <<>>, last.opt)
  /\ Table.gpuFilter = <<>>
  /\ ~IsUndefined(Table.filterRecordCPU)
  /\ Len(Table.filterRecordCPU.cpu) = 2
  /\ Len(Table.allData) = MaxRows

\* C17: filterTableCPU with a filter list that has no GPU-flagged filter
\* returns the table itself and makes no copy; filteredIdxCPU then names the
\* array allIndexes names when the list is empty and the array filteredIndex
\* names otherwise (the same array, nothing is scanned), filterRecordCPU is
\* the cpuOnly classification of the filters, and filteredIndex,
\* filteredIndexForDomain, filterRecord, gpuFilter and the rest are as before.
C17_CpuCacheWithoutGpuFilter ==
  [][(last'.op = "filterTableCPU" /\ ~HasGpuFilter(last'.filters)) =>
       LET u == objs'["table"]
       IN /\ last'.ret = Ret("object", "table")
          /\ "copied" \notin DOMAIN objs'
          /\ u.filteredIdxCPU = IF last'.filters = <<>> THEN u.allIndexes ELSE u.filteredIndex
          /\ arrays'[u.filteredIdxCPU] =
               IF last'.filters = <<>> THEN IndexArray("table", "allIndexes")
               ELSE IndexArray("table", "filteredIndex")
          /\ u.filterRecordCPU = getFilterRecord(DataId, last'.filters, CpuOpt)
          /\ Untouched(u, arrays', fieldArrays') = Untouched(Table, arrays, fieldArrays)]_vars

\* C17 happens: filterTableCPU with the CPU filter f1 took over a
\* filteredIndex that hides rows, on a table whose record holds a
\* GPU-flagged filter
C17_Witness ==
  /\ last.op = "filterTableCPU"
  /\ last.filters # <<>>
  /\ ~HasGpuFilter(last.filters)
  /\ Table.filteredIdxCPU = Table.filteredIndex
  /\ IndexArray("table", "filteredIdxCPU") # AllRowIndices
  /\ ~IsUndefined(Table.filterRecord)
  /\ Table.filterRecord.gpu # <<>>
  /\ Len(Table.allData) = MaxRows

\* C18: in every state, each object (the table, its shadow copy, a sorted
\* dataset) has the constructor's rows as allData and 0 .. N-1 ascending as
\* allIndexes, whatever filterTable, filterTableCPU, updateColumnField,
\* getColumnFilterProps and sortDatasetByColumn calls were made and whatever
\* other properties name the array of allIndexes.
C18_RowsAndAllIndexesKept ==
  \A id \in DOMAIN objs :
    /\ objs[id].allData = data.rows
    /\ IndexArray(id, "allIndexes") = AllRowIndices

\* C18 happens: the shadow copy was sorted into another order than
\* allIndexes while its filteredIndexForDomain named the array of allIndexes
\* and the table had got another fields array since the copy
C18_Witness ==
  /\ {"copied", "sorted"} \subseteq DOMAIN objs
  /\ last.op = SortOp
  /\ last.this = "copied"
  /\ objs["sorted"].sortOrder >= 0
  /\ IndexArray("sorted", "sortOrder") # AllRowIndices
  /\ objs["copied"].filteredIndexForDomain = objs["copied"].allIndexes
  /\ Table.filteredIdxCPU >= 0
  /\ Fields("table") # Fields("copied")
  /\ Len(Table.allData) = MaxRows

====
